---- MODULE Spec2Model ----
(***************************************************************************)
(* Model of the book-uploader: the reconciliation of an XML book feed      *)
(* against a WooCommerce catalogue (main.py, cache_handler.py,             *)
(* woocommerce_handler.py, xml_handler.py) and the worker thread of the    *)
(* front-end that drives it (gui.py).                                      *)
(*                                                                         *)
(* Text is a sequence of one-character strings, '' is << >>.  A field of   *)
(* a <book> element is the text of the child element, None when the child  *)
(* is there without text, or NoElement when book.find() returns None.      *)
(***************************************************************************)
EXTENDS Integers, Sequences, FiniteSets, TLC

\* ------------------------------------------------------------------ bounds
MaxFeed == 3
MaxBatch == 2
MaxPages == 2
MaxRuns == 2

\* ------------------------------------------------------- program constants
CACHE_EXPIRATION_DAYS == 31
GuiBatchSize == 50

\* ------------------------------------------------------------ Python values
None == <<"<None>">>
NoElement == <<"<no element>">>
Surrogate == "<lone surrogate>"

Digits == {"0", "1", "2", "3", "4", "5", "6", "7", "8", "9"}

DigitVal(c) ==
    CASE c = "0" -> 0 [] c = "1" -> 1 [] c = "2" -> 2 [] c = "3" -> 3
      [] c = "4" -> 4 [] c = "5" -> 5 [] c = "6" -> 6 [] c = "7" -> 7
      [] c = "8" -> 8 [] c = "9" -> 9

IsSpace(c) == c \in {" ", "\t", "\n"}

RECURSIVE LStrip(_)
LStrip(s) == IF s # << >> /\ IsSpace(Head(s)) THEN LStrip(Tail(s)) ELSE s

RECURSIVE RStrip(_)
RStrip(s) ==
    IF s # << >> /\ IsSpace(s[Len(s)]) THEN RStrip(SubSeq(s, 1, Len(s) - 1)) ELSE s

\* str.strip()
Strip(s) == RStrip(LStrip(s))

\* str.split(d) for a one-character separator: always at least one piece
RECURSIVE SplitFrom(_, _, _)
SplitFrom(s, d, cur) ==
    IF s = << >> THEN <<cur>>
    ELSE IF Head(s) = d THEN <<cur>> \o SplitFrom(Tail(s), d, << >>)
    ELSE SplitFrom(Tail(s), d, Append(cur, Head(s)))

Split(s, d) == SplitFrom(s, d, << >>)

RECURSIVE DigitsValue(_, _)
DigitsValue(s, acc) ==
    IF s = << >> THEN acc ELSE DigitsValue(Tail(s), 10 * acc + DigitVal(Head(s)))

\* int(text): surrounding white space, an optional sign, then digits only
IntBody(s) == IF s # << >> /\ Head(s) \in {"+", "-"} THEN Tail(s) ELSE s

IntParses(s) ==
    LET b == IntBody(Strip(s))
    IN  b # << >> /\ \A i \in 1..Len(b) : b[i] \in Digits

IntValue(s) ==
    LET t == Strip(s)
        v == DigitsValue(IntBody(t), 0)
    IN  IF t # << >> /\ Head(t) = "-" THEN 0 - v ELSE v

\* xml_handler.safe_decode: None gives '', the characters that do not encode
\* to UTF-8 are dropped
RECURSIVE DropUnencodable(_)
DropUnencodable(s) ==
    IF s = << >> THEN << >>
    ELSE IF Head(s) = Surrogate THEN DropUnencodable(Tail(s))
    ELSE <<Head(s)>> \o DropUnencodable(Tail(s))

safe_decode(text) == IF text = None THEN << >> ELSE DropUnencodable(text)

\* ---------------------------------------------------------------- the feed
KeyA == <<"A">>
KeyB == <<"B">>
Keys == {KeyA, KeyB}

GoodBook(k) ==
    [isbn |-> k, title |-> <<"t", Surrogate>>, price |-> <<"9", ".", "5">>,
     stock |-> <<" ", "7">>, longdesc |-> <<"d">>, content |-> None,
     multicat |-> NoElement, thumbnailL |-> NoElement, author |-> <<"a">>,
     publisher |-> <<"p">>, cover |-> None, pages |-> <<"8">>, lang |-> <<"e">>,
     dimensions |-> <<"1", "x", "2", "x", "3">>, weight |-> <<"4">>,
     pub_date |-> <<"2">>, subject |-> NoElement]

\* The records the feeds are drawn from: complete ones, and ones with a field
\* that is unparsable, empty or not there
Books ==
    { GoodBook(KeyA),
      GoodBook(KeyB),
      [GoodBook(KeyA) EXCEPT !.stock = <<"N", "/", "A">>],
      [GoodBook(KeyB) EXCEPT !.stock = None],
      [GoodBook(KeyB) EXCEPT !.stock = NoElement, !.price = None],
      [GoodBook(KeyA) EXCEPT !.price = NoElement],
      [GoodBook(KeyB) EXCEPT !.multicat = <<"x", "/", "y", ",", " ", "z">>,
                             !.subject = <<"s", "|", "u">>,
                             !.thumbnailL = <<"h">>, !.longdesc = NoElement] }

SeqsUpTo(S, n) == UNION { [1..m -> S] : m \in 0..n }

\* The feeds: up to MaxFeed distinct records, in any order; two records of a
\* feed may carry the same key
Feeds == { f \in SeqsUpTo(Books, MaxFeed) :
             \A i, j \in 1..Len(f) : i # j => f[i] # f[j] }

\* The remote product behind a key, as the listing returns it
RemoteId(k) == IF k = KeyA THEN 101 ELSE 102
RemoteProduct(k) == [id |-> RemoteId(k), sku |-> k]

\* CatalogSnapshot: dict sku -> product
Snapshots == { [k \in K |-> RemoteProduct(k)] : K \in SUBSET Keys }

Presets ==
    [tax_status |-> "taxable", tax_class |-> "zero", manage_stock |-> TRUE,
     stock_status |-> "instock", shipping_class |-> "books", backorders |-> "no"]

\* ------------------------------------------------------ main.analyze_products
\* sku in list
InList(x, l) == \E i \in 1..Len(l) : l[i] = x

RECURSIVE analyze_new(_, _)
analyze_new(root, existing) ==
    IF root = << >> THEN << >>
    ELSE LET sku == safe_decode(Head(root).isbn)
         IN  (IF sku \notin DOMAIN existing THEN <<sku>> ELSE << >>)
                 \o analyze_new(Tail(root), existing)

\* analyze_products with the else of main.py:111 lost: every sku is an update
RECURSIVE analyze_updates_no_else(_, _)
analyze_updates_no_else(root, existing) ==
    IF root = << >> THEN << >>
    ELSE <<safe_decode(Head(root).isbn)>>
             \o analyze_updates_no_else(Tail(root), existing)

RECURSIVE analyze_updates(_, _)
analyze_updates(root, existing) ==
    IF root = << >> THEN << >>
    ELSE LET sku == safe_decode(Head(root).isbn)
         IN  (IF sku \notin DOMAIN existing THEN << >> ELSE <<sku>>)
                 \o analyze_updates(Tail(root), existing)

\* (new_products, updates)
analyze_products(root, existing) ==
    <<analyze_new(root, existing), analyze_updates(root, existing)>>

\* ------------------------------------------- main.sanitize_category_name
RECURSIVE ReplaceSlashes(_)
ReplaceSlashes(s) ==
    IF s = << >> THEN << >>
    ELSE IF Head(s) = "/" THEN <<" ", "a", "n", "d", " ">> \o ReplaceSlashes(Tail(s))
    ELSE IF Head(s) = "\\" THEN ReplaceSlashes(Tail(s))
    ELSE <<Head(s)>> \o ReplaceSlashes(Tail(s))

sanitize_category_name(category_name) == Strip(ReplaceSlashes(category_name))

\* ------------------------------------------------ the record transformation
\* truthiness of element.text
HasText(f) == f # NoElement /\ f # None /\ f # << >>

\* The exception the dict display of new_stock_import raises for a book, in the
\* order Python evaluates its entries: element.text on a missing element is an
\* AttributeError, int() of unparsable text a ValueError
NewProductRaises(book) ==
    IF book.title = NoElement THEN "AttributeError"
    ELSE IF book.price = NoElement THEN "AttributeError"
    ELSE IF book.stock # NoElement /\ ~IntParses(safe_decode(book.stock))
         THEN "ValueError"
    ELSE IF \E f \in {"author", "publisher", "cover", "pages", "lang",
                      "dimensions", "weight", "pub_date"} : book[f] = NoElement
         THEN "AttributeError"
    ELSE "none"

Attribute(n, text) == [name |-> n, options |-> <<safe_decode(text)>>]

RECURSIVE TagList(_)
TagList(pieces) ==
    IF pieces = << >> THEN << >>
    ELSE <<[name |-> safe_decode(Strip(Head(pieces)))]>> \o TagList(Tail(pieces))

\* The dict built at main.py:135-163, for a book on which it does not raise
NewProductDict(book, sku, categories) ==
    [name |-> safe_decode(book.title),
     type |-> "simple",
     sku |-> sku,
     regular_price |-> safe_decode(book.price),
     stock_quantity |-> IF book.stock # NoElement
                        THEN IntValue(safe_decode(book.stock)) ELSE 0,
     description |-> IF book.longdesc # NoElement
                     THEN safe_decode(book.longdesc) ELSE << >>,
     short_description |-> IF book.content # NoElement
                           THEN safe_decode(book.content) ELSE << >>,
     categories |-> categories,
     images |-> IF HasText(book.thumbnailL)
                THEN <<[src |-> safe_decode(book.thumbnailL)]>> ELSE << >>,
     attributes |-> << Attribute("Author", book.author),
                       Attribute("Publisher", book.publisher),
                       [name |-> "ISBN", options |-> <<sku>>],
                       Attribute("Format", book.cover),
                       Attribute("Pages", book.pages),
                       Attribute("Language", book.lang),
                       Attribute("Dimensions", book.dimensions),
                       Attribute("Weight", book.weight),
                       Attribute("Publication Date", book.pub_date) >>,
     tags |-> IF HasText(book.subject) THEN TagList(Split(book.subject, "|"))
              ELSE << >>,
     tax_status |-> Presets.tax_status,
     tax_class |-> Presets.tax_class,
     manage_stock |-> Presets.manage_stock,
     stock_status |-> Presets.stock_status,
     shipping_class |-> Presets.shipping_class,
     backorders |-> Presets.backorders]


\* main.validate_and_clean_product_data.  The stock quantity it is handed is
\* an integer already (main.py:140), so its int() at main.py:77-80 changes
\* nothing; the dict of new_stock_import has no 'dimensions' key
validate_and_clean_product_data(product_data) ==
    LET KeepAttr(attr) == attr.options[1] # None
        dims == IF "dimensions" \in DOMAIN product_data
                THEN Split(product_data.dimensions, "x") ELSE << >>
        cleaned ==
            [product_data EXCEPT
               !.attributes = SelectSeq(product_data.attributes, KeepAttr),
               !.regular_price = IF product_data.regular_price \in {None, << >>}
                                 THEN <<"0">> ELSE product_data.regular_price,
               !.images = IF product_data.images # << >>
                             /\ product_data.images[1].src = None
                          THEN << >> ELSE product_data.images,
               !.description = IF product_data.description = None
                               THEN << >> ELSE product_data.description]
    IN  IF "dimensions" \in DOMAIN product_data
        THEN [f \in DOMAIN cleaned |->
                IF f = "dimensions"
                THEN IF Len(dims) = 3
                     THEN [length |-> Strip(dims[1]), width |-> Strip(dims[2]),
                           height |-> Strip(dims[3])]
                     ELSE << >>
                ELSE cleaned[f]]
        ELSE cleaned

\* The exception the dict display of update_stock_and_price raises for a book
UpdateRaises(book) ==
    IF book.stock = NoElement THEN "AttributeError"
    ELSE IF ~IntParses(safe_decode(book.stock)) THEN "ValueError"
    ELSE IF book.price = NoElement THEN "AttributeError"
    ELSE "none"

\* The update payload of main.py:207-211
UpdateData(book, product_id) ==
    [id |-> product_id,
     stock_quantity |-> IntValue(safe_decode(book.stock)),
     regular_price |-> safe_decode(book.price)]

\* ------------------------------------------------------------------- state
VARIABLES
    feed,               \* root.findall('book'): the books of the feed, in order
    existing_products,  \* the snapshot, dict sku -> product
    batch_size,         \* the batch_size argument
    pc,                 \* where the run is
    fn,                 \* the synchronizer running: "new", "update" or "none"
    new_product_skus,   \* analyze_products' first result
    update_skus,        \* analyze_products' second result
    bookIdx,            \* position of the for loop over the books
    current_batch,
    batches,
    idx,                \* position of the for loop over the batches
    submitted,          \* what the gateway was handed, and the outcome logged
    new_products_added,
    updates,
    reported,           \* the total of the closing log line, -1 before it
    raised,             \* the exception that left the function, or "none"
    calls,              \* the calls made on the WooCommerceHandler, in order
    mode,               \* gui: the mode of the run
    cacheFile,          \* woocommerce_products_cache.json
    cacheResult,        \* gui: what load_cache did in this run
    remotePages,        \* the product listing of the remote, page by page
    totalPagesHeader,   \* whether the listing sends X-WP-TotalPages
    page,               \* gui: the page counter of the fetch loop
    fetched,            \* gui: the pages requested in this run, and whether
                        \* the request succeeded
    saved,              \* gui: the snapshots handed to save_cache in this run
    run_button,         \* gui: "normal" or "disabled"
    dialogs,            \* gui: the message boxes shown in this run
    runs,               \* gui: the runs started in this session
    selected_file,      \* gui: whether an XML file has been chosen
    analyzed,           \* gui: whether analyze_products ran in this run
    workers             \* gui: the worker threads that run process

syncVars == <<fn, bookIdx, current_batch, batches, idx, submitted,
              new_products_added, updates, reported>>
guiVars == <<mode, cacheFile, cacheResult, remotePages, totalPagesHeader, page,
             fetched, saved, run_button, dialogs, runs, selected_file, analyzed,
             workers>>
vars == <<feed, existing_products, batch_size, pc, new_product_skus, update_skus,
          raised, calls, syncVars, guiVars>>

NoSnapshot == [k \in {} |-> RemoteProduct(k)]

\* ------------------------------------------------------- cache_handler.py
\* The cache file: not there, a snapshot as save_cache writes it (with its
\* age in days when it is read), or something else under that name
CacheFile(kind, age, products) == [kind |-> kind, age |-> age, products |-> products]
NoCacheFile == CacheFile("none", 0, NoSnapshot)

\* Ages around the expiration, in days
CacheAges == {0, 30, 31, 40}

CorruptKinds == {"not_json", "no_cache_date", "no_products", "bad_date",
                 "not_a_mapping", "unreadable"}

CacheFiles ==
    {NoCacheFile}
        \cup { CacheFile("snapshot", a, p) : a \in CacheAges, p \in Snapshots }
        \cup { CacheFile(k, 0, NoSnapshot) : k \in CorruptKinds }

\* datetime.now() - cache_date < timedelta(days=CACHE_EXPIRATION_DAYS)
\* with <= for <
CacheFresh_le(age) == age <= CACHE_EXPIRATION_DAYS

CacheFresh(age) == age < CACHE_EXPIRATION_DAYS

\* The first exception raised inside the try of load_cache, "none" if none:
\* open() on an unreadable file, json.load on text that is no JSON,
\* cache_data['cache_date'] on a value that is no dict or has no such key,
\* fromisoformat on a string that is no date, cache_data['products'] on a
\* dict without it (reached for a fresh date only)
LoadCacheException(file) ==
    CASE file.kind = "unreadable" -> "OSError"
      [] file.kind = "not_json" -> "JSONDecodeError"
      [] file.kind = "not_a_mapping" -> "TypeError"
      [] file.kind = "no_cache_date" -> "KeyError"
      [] file.kind = "bad_date" -> "ValueError"
      [] file.kind = "no_products" /\ CacheFresh(file.age) -> "KeyError"
      [] OTHER -> "none"

\* except (json.JSONDecodeError, KeyError)
LoadCacheCatches(exc) == exc \in {"JSONDecodeError", "KeyError"}

\* load_cache: "hit" with the products, "miss" for None, "raise" when an
\* exception leaves it
load_cache(file) ==
    IF file.kind = "none" THEN [result |-> "miss", exc |-> "none"]
    ELSE LET exc == LoadCacheException(file)
         IN  IF exc # "none"
             THEN IF LoadCacheCatches(exc) THEN [result |-> "miss", exc |-> "none"]
                  ELSE [result |-> "raise", exc |-> exc]
             ELSE IF CacheFresh(file.age) THEN [result |-> "hit", exc |-> "none"]
             ELSE [result |-> "miss", exc |-> "none"]

SyncIdle ==
    /\ fn = "none" /\ bookIdx = 0 /\ current_batch = << >> /\ batches = << >>
    /\ idx = 0 /\ submitted = << >> /\ new_products_added = 0 /\ updates = 0
    /\ reported = -1

\* ----------------------------------------------- main.get_or_create_category
\* What the remote does with one category name: the search finds it, the
\* search finds nothing and the create answers with an id or without one, or
\* either call fails
CatOutcomes == {"match", "created", "no_id", "search_error", "create_error"}

\* The id the remote has, or makes, for a category name
CategoryId(name) == 300 + Len(name)

\* The return value: {id}, or {} for None
get_or_create_category(category_name, outcome) ==
    IF outcome \in {"match", "created"}
    THEN {CategoryId(sanitize_category_name(category_name))}
    ELSE {}

\* The calls it makes on the handler, each with what the handler answered
CategoryCalls(category_name, outcome) ==
    LET n == sanitize_category_name(category_name)
        search == [op |-> "get_categories", arg |-> n,
                   result |-> CASE outcome = "match" -> "found"
                                [] outcome = "search_error" -> "error"
                                [] OTHER -> "none"]
        create == [op |-> "create_category", arg |-> n,
                   result |-> CASE outcome = "created" -> "id"
                                [] outcome = "no_id" -> "no_id"
                                [] OTHER -> "error"]
    IN  IF outcome \in {"match", "search_error"}
        THEN <<search>>
        ELSE <<search, create>>

\* The names of main.py:130-131
CategoryNames(book) ==
    IF HasText(book.multicat)
    THEN LET pieces == Split(book.multicat, ",")
         IN  [i \in 1..Len(pieces) |-> safe_decode(Strip(pieces[i]))]
    ELSE << >>

\* ResolvedCategories giving up the list at the first name that fails
RECURSIVE ResolvedCategories_abort(_, _)
ResolvedCategories_abort(names, outs) ==
    IF names = << >> THEN << >>
    ELSE LET cat_id == get_or_create_category(Head(names), Head(outs))
         IN  IF cat_id # {}
             THEN <<[id |-> CHOOSE i \in cat_id : TRUE]>>
                      \o ResolvedCategories_abort(Tail(names), Tail(outs))
             ELSE << >>

RECURSIVE ResolvedCategories(_, _)
ResolvedCategories(names, outs) ==
    IF names = << >> THEN << >>
    ELSE LET cat_id == get_or_create_category(Head(names), Head(outs))
         IN  (IF cat_id # {} THEN <<[id |-> CHOOSE i \in cat_id : TRUE]>> ELSE << >>)
                 \o ResolvedCategories(Tail(names), Tail(outs))

RECURSIVE AllCategoryCalls(_, _)
AllCategoryCalls(names, outs) ==
    IF names = << >> THEN << >>
    ELSE CategoryCalls(Head(names), Head(outs))
             \o AllCategoryCalls(Tail(names), Tail(outs))

\* --------------------------------------------------- main.new_stock_import
\* The analysis of the feed against the snapshot, before either synchronizer
Analyze ==
    /\ pc = "analyze"
    /\ new_product_skus' = analyze_products(feed, existing_products)[1]
    /\ update_skus' = analyze_products(feed, existing_products)[2]
    /\ pc' = "call"
    /\ UNCHANGED <<feed, existing_products, batch_size, raised, calls, syncVars,
                   guiVars>>

\* new_stock_import(root, wc_handler, existing_products, new_product_skus,
\* presets, batch_size) is entered
NewStockStart ==
    /\ pc = "call"
    /\ fn' = "new"
    /\ bookIdx' = 1
    /\ pc' = "build"
    /\ UNCHANGED <<feed, existing_products, batch_size, new_product_skus,
                   update_skus, raised, calls, current_batch, batches, idx,
                   submitted, new_products_added, updates, reported, guiVars>>

\* One turn of the loop over the books, main.py:124-171
NewStockBuild ==
    /\ pc = "build" /\ fn = "new" /\ bookIdx <= Len(feed)
    /\ LET book == feed[bookIdx]
           sku == safe_decode(book.isbn)
           names == CategoryNames(book)
       IN  IF ~InList(sku, new_product_skus)
           THEN /\ bookIdx' = bookIdx + 1
                /\ UNCHANGED <<pc, raised, calls, current_batch, batches>>
           ELSE \E outs \in [1..Len(names) -> CatOutcomes] :
                  /\ calls' = calls \o AllCategoryCalls(names, outs)
                  /\ IF NewProductRaises(book) # "none"
                     THEN /\ raised' = NewProductRaises(book)
                          /\ pc' = "raised"
                          /\ UNCHANGED <<bookIdx, current_batch, batches>>
                     ELSE LET new_product ==
                                  validate_and_clean_product_data(
                                      NewProductDict(book, sku,
                                          ResolvedCategories(names, outs)))
                              grown == Append(current_batch, new_product)
                          IN  /\ IF Len(grown) >= batch_size
                                 THEN /\ batches' = Append(batches, grown)
                                      /\ current_batch' = << >>
                                 ELSE /\ current_batch' = grown
                                      /\ UNCHANGED batches
                              /\ bookIdx' = bookIdx + 1
                              /\ UNCHANGED <<pc, raised>>
    /\ UNCHANGED <<feed, existing_products, batch_size, new_product_skus,
                   update_skus, fn, idx, submitted, new_products_added, updates,
                   reported, guiVars>>

\* After the loop: the remaining products make the last batch, main.py:174-175
BuildEnd ==
    /\ pc = "build" /\ bookIdx > Len(feed)
    /\ batches' = IF current_batch # << >> THEN Append(batches, current_batch)
                  ELSE batches
    /\ idx' = 1
    /\ pc' = "submit"
    /\ UNCHANGED <<feed, existing_products, batch_size, new_product_skus,
                   update_skus, raised, calls, fn, bookIdx, current_batch,
                   submitted, new_products_added, updates, reported, guiVars>>

\* NewStockSubmit with a break in the except clause: the first failure ends
\* the loop
NewStockSubmit_break ==
    /\ pc = "submit" /\ fn = "new" /\ idx <= Len(batches)
    /\ \E ok \in BOOLEAN :
          /\ submitted' = Append(submitted, [batch |-> batches[idx], ok |-> ok])
          /\ new_products_added' = IF ok THEN new_products_added + Len(batches[idx])
                                   ELSE new_products_added
          /\ idx' = IF ok THEN idx + 1 ELSE Len(batches) + 1
    /\ calls' = Append(calls, [op |-> "create_products_batch", arg |-> <<idx>>])
    /\ UNCHANGED <<feed, existing_products, batch_size, pc, new_product_skus,
                   update_skus, raised, fn, bookIdx, current_batch, batches,
                   updates, reported, guiVars>>

\* One turn of the loop over the batches, main.py:178-190
NewStockSubmit ==
    /\ pc = "submit" /\ fn = "new" /\ idx <= Len(batches)
    /\ \E ok \in BOOLEAN :
          /\ submitted' = Append(submitted, [batch |-> batches[idx], ok |-> ok])
          /\ new_products_added' = IF ok THEN new_products_added + Len(batches[idx])
                                   ELSE new_products_added
    /\ calls' = Append(calls, [op |-> "create_products_batch", arg |-> <<idx>>])
    /\ idx' = idx + 1
    /\ UNCHANGED <<feed, existing_products, batch_size, pc, new_product_skus,
                   update_skus, raised, fn, bookIdx, current_batch, batches,
                   updates, reported, guiVars>>

\* The closing log lines, main.py:192-194
NewStockEnd ==
    /\ pc = "submit" /\ fn = "new" /\ idx > Len(batches)
    /\ reported' = new_products_added
    /\ pc' = "done"
    /\ UNCHANGED <<feed, existing_products, batch_size, new_product_skus,
                   update_skus, raised, calls, fn, bookIdx, current_batch,
                   batches, idx, submitted, new_products_added, updates, guiVars>>

\* ----------------------------------------------- main.update_stock_and_price
UpdateStart ==
    /\ pc = "call"
    /\ fn' = "update"
    /\ bookIdx' = 1
    /\ pc' = "build"
    /\ UNCHANGED <<feed, existing_products, batch_size, new_product_skus,
                   update_skus, raised, calls, current_batch, batches, idx,
                   submitted, new_products_added, updates, reported, guiVars>>

\* One turn of the loop over the books, main.py:202-220: a ValueError or a
\* TypeError is logged and the book left out, any other exception leaves the
\* function
UpdateBuild ==
    /\ pc = "build" /\ fn = "update" /\ bookIdx <= Len(feed)
    /\ LET book == feed[bookIdx]
           sku == safe_decode(book.isbn)
       IN  IF ~InList(sku, update_skus)
           THEN /\ bookIdx' = bookIdx + 1
                /\ UNCHANGED <<pc, raised, current_batch, batches, updates>>
           ELSE IF UpdateRaises(book) \in {"ValueError", "TypeError"}
           THEN /\ bookIdx' = bookIdx + 1
                /\ UNCHANGED <<pc, raised, current_batch, batches, updates>>
           ELSE IF UpdateRaises(book) # "none"
           THEN /\ raised' = UpdateRaises(book)
                /\ pc' = "raised"
                /\ UNCHANGED <<bookIdx, current_batch, batches, updates>>
           ELSE LET grown == Append(current_batch,
                                 UpdateData(book, existing_products[sku].id))
                IN  /\ IF Len(grown) >= batch_size
                       THEN /\ batches' = Append(batches, grown)
                            /\ current_batch' = << >>
                       ELSE /\ current_batch' = grown
                            /\ UNCHANGED batches
                    /\ updates' = updates + 1
                    /\ bookIdx' = bookIdx + 1
                    /\ UNCHANGED <<pc, raised>>
    /\ UNCHANGED <<feed, existing_products, batch_size, new_product_skus,
                   update_skus, calls, fn, idx, submitted, new_products_added,
                   reported, guiVars>>

\* One turn of the loop over the batches, main.py:227-238
UpdateSubmit ==
    /\ pc = "submit" /\ fn = "update" /\ idx <= Len(batches)
    /\ \E ok \in BOOLEAN :
          submitted' = Append(submitted, [batch |-> batches[idx], ok |-> ok])
    /\ calls' = Append(calls, [op |-> "update_products_batch", arg |-> <<idx>>])
    /\ idx' = idx + 1
    /\ UNCHANGED <<feed, existing_products, batch_size, pc, new_product_skus,
                   update_skus, raised, fn, bookIdx, current_batch, batches,
                   new_products_added, updates, reported, guiVars>>

\* The closing log lines, main.py:240-242
UpdateEnd ==
    /\ pc = "submit" /\ fn = "update" /\ idx > Len(batches)
    /\ reported' = updates
    /\ pc' = "done"
    /\ UNCHANGED <<feed, existing_products, batch_size, new_product_skus,
                   update_skus, raised, calls, fn, bookIdx, current_batch,
                   batches, idx, submitted, new_products_added, updates, guiVars>>

\* -------------------------------------- the synchronizers, called directly
GuiIdle ==
    /\ mode = "none" /\ cacheFile = NoCacheFile /\ cacheResult = "none"
    /\ remotePages = << >> /\ totalPagesHeader = FALSE /\ page = 0
    /\ fetched = << >> /\ saved = << >> /\ run_button = "normal"
    /\ dialogs = << >> /\ runs = 0 /\ selected_file = FALSE /\ analyzed = FALSE
    /\ workers = 0

SyncInit ==
    /\ feed \in Feeds
    /\ existing_products \in Snapshots
    /\ batch_size \in 1..MaxBatch
    /\ pc = "analyze"
    /\ new_product_skus = << >> /\ update_skus = << >>
    /\ raised = "none" /\ calls = << >>
    /\ SyncIdle
    /\ GuiIdle

SyncNext ==
    \/ Analyze
    \/ NewStockStart \/ NewStockBuild \/ NewStockSubmit \/ NewStockEnd
    \/ UpdateStart \/ UpdateBuild \/ UpdateSubmit \/ UpdateEnd
    \/ BuildEnd

SyncSpec == SyncInit /\ [][SyncNext]_vars

\* ------------------------------------------- a session of runs, gui.py:180-209
\* The keys of the products the run's successful create batches held
CreatedKeys ==
    IF fn = "new"
    THEN UNION { { submitted[j].batch[n].sku : n \in 1..Len(submitted[j].batch) } :
                 j \in { i \in 1..Len(submitted) : submitted[i].ok } }
    ELSE {}

\* The next run after one that is over: load_cache returns the snapshot that
\* save_cache wrote when it was fetched (gui.py:183-188; the synchronizers
\* neither change existing_products nor write the cache), or, without a
\* valid cache file, the listing is fetched again from the remote, which now
\* has the created products (gui.py:184-205); then the analysis (gui.py:207)
NextRun ==
    /\ pc \in {"done", "raised"}
    /\ \E cache_hit \in BOOLEAN :
          LET snapshot == IF cache_hit THEN existing_products
                          ELSE [k \in DOMAIN existing_products \cup CreatedKeys |->
                                   RemoteProduct(k)]
          IN  /\ existing_products' = snapshot
              /\ new_product_skus' = analyze_products(feed, snapshot)[1]
              /\ update_skus' = analyze_products(feed, snapshot)[2]
    /\ pc' = "call"
    /\ raised' = "none" /\ calls' = << >>
    /\ fn' = "none" /\ bookIdx' = 0 /\ current_batch' = << >> /\ batches' = << >>
    /\ idx' = 0 /\ submitted' = << >> /\ new_products_added' = 0 /\ updates' = 0
    /\ reported' = -1
    /\ UNCHANGED <<feed, batch_size, guiVars>>

SessionNext == SyncNext \/ NextRun

SessionSpec == SyncInit /\ [][SessionNext]_vars

\* ------------------------------------------------------------------ gui.py
Modes == {"dry-run", "new-stock", "update"}

\* The parameters of the synchronizers (main.py:115, 196) and the keywords
\* process passes beside the positional arguments (gui.py:229-230, 249-250)
new_stock_import_params ==
    {"root", "wc_handler", "existing_products", "new_product_skus", "presets",
     "batch_size"}
update_stock_and_price_params ==
    {"root", "wc_handler", "existing_products", "update_skus", "batch_size"}
GuiKeywords == {"batch_size", "progress_callback"}

\* Python binds a call only if the function has a parameter for each keyword
CallBinds(params, keywords) == keywords \subseteq params

\* The listing of the remote: pages of products, page p empty past the last
RemoteListings ==
    SeqsUpTo({<<RemoteProduct(KeyA)>>, <<RemoteProduct(KeyB)>>}, MaxPages)

PageProducts(p) == IF p <= Len(remotePages) THEN remotePages[p] ELSE << >>

RECURSIVE WithProducts(_, _)
WithProducts(snapshot, products) ==
    IF products = << >> THEN snapshot
    ELSE LET pr == Head(products)
         IN  WithProducts([k \in DOMAIN snapshot \cup {pr.sku} |->
                              IF k = pr.sku THEN pr ELSE snapshot[k]],
                          Tail(products))

\* The feeds of the front-end runs: complete records (the worker reads
\* nothing but the isbn of a book before it calls a synchronizer)
GuiFeeds == { f \in Feeds : \A i \in 1..Len(f) : f[i] \in {GoodBook(k) : k \in Keys} }

IsWrite(call) ==
    call.op \in {"create_products_batch", "update_products_batch", "create_category"}

Init ==
    /\ feed \in GuiFeeds
    /\ cacheFile \in CacheFiles
    /\ remotePages \in RemoteListings
    /\ totalPagesHeader \in BOOLEAN
    /\ existing_products = NoSnapshot
    /\ batch_size = GuiBatchSize
    /\ pc = "idle"
    /\ new_product_skus = << >> /\ update_skus = << >>
    /\ raised = "none" /\ calls = << >>
    /\ SyncIdle
    /\ mode = "dry-run" /\ cacheResult = "none" /\ page = 0
    /\ fetched = << >> /\ saved = << >> /\ run_button = "normal"
    /\ dialogs = << >> /\ runs = 0 /\ selected_file = FALSE /\ analyzed = FALSE
    /\ workers = 0

\* browse_file, gui.py:128-136, with a file chosen
BrowseFile ==
    /\ pc = "idle" /\ ~selected_file
    /\ selected_file' = TRUE
    /\ UNCHANGED <<feed, existing_products, batch_size, pc, new_product_skus,
                   update_skus, raised, calls, syncVars, mode, cacheFile,
                   cacheResult, remotePages, totalPagesHeader, page, fetched,
                   saved, run_button, dialogs, runs, analyzed, workers>>

\* RunProcess without gui.py:170: the Run button stays enabled
RunProcess_no_disable ==
    /\ run_button = "normal" /\ runs < MaxRuns
    /\ IF ~selected_file
       THEN /\ dialogs' = <<"No File Selected">>
            /\ UNCHANGED <<pc, run_button, runs, workers, existing_products, mode,
                           new_product_skus, update_skus, raised, calls,
                           cacheResult, page, fetched, saved, analyzed>>
       ELSE /\ UNCHANGED run_button
            /\ \E m \in Modes : mode' = m
            /\ runs' = runs + 1
            /\ workers' = workers + 1
            /\ pc' = "load_xml"
            /\ existing_products' = NoSnapshot
            /\ new_product_skus' = << >> /\ update_skus' = << >>
            /\ raised' = "none" /\ calls' = << >> /\ cacheResult' = "none"
            /\ page' = 0 /\ fetched' = << >> /\ saved' = << >>
            /\ dialogs' = << >> /\ analyzed' = FALSE
    /\ UNCHANGED <<feed, batch_size, syncVars, cacheFile, remotePages,
                   totalPagesHeader, selected_file>>

\* run_process, gui.py:159-178: the Run button, enabled, is pressed, with the
\* mode the radio buttons (gui.py:67-69) then show
RunProcess ==
    /\ run_button = "normal" /\ runs < MaxRuns
    /\ IF ~selected_file
       THEN /\ dialogs' = <<"No File Selected">>
            /\ UNCHANGED <<pc, run_button, runs, workers, existing_products, mode,
                           new_product_skus, update_skus, raised, calls,
                           cacheResult, page, fetched, saved, analyzed>>
       ELSE /\ run_button' = "disabled"
            /\ \E m \in Modes : mode' = m
            /\ runs' = runs + 1
            /\ workers' = workers + 1
            /\ pc' = "load_xml"
            /\ existing_products' = NoSnapshot
            /\ new_product_skus' = << >> /\ update_skus' = << >>
            /\ raised' = "none" /\ calls' = << >> /\ cacheResult' = "none"
            /\ page' = 0 /\ fetched' = << >> /\ saved' = << >>
            /\ dialogs' = << >> /\ analyzed' = FALSE
    /\ UNCHANGED <<feed, batch_size, syncVars, cacheFile, remotePages,
                   totalPagesHeader, selected_file>>

\* process, gui.py:182: load_xml returns the root or raises
LoadXml ==
    /\ pc = "load_xml"
    /\ \E ok \in BOOLEAN :
          IF ok THEN pc' = "load_cache" /\ UNCHANGED raised
          ELSE pc' = "except" /\ raised' = "ParseError"
    /\ UNCHANGED <<feed, existing_products, batch_size, new_product_skus,
                   update_skus, calls, syncVars, guiVars>>

\* process, gui.py:183-188
LoadCache ==
    /\ pc = "load_cache"
    /\ LET r == load_cache(cacheFile)
       IN  /\ cacheResult' = r.result
           /\ IF r.result = "hit"
              THEN /\ existing_products' = cacheFile.products
                   /\ pc' = "analyze_gui"
                   /\ UNCHANGED <<page, raised>>
              ELSE IF r.result = "miss"
              THEN /\ existing_products' = NoSnapshot
                   /\ page' = 1
                   /\ pc' = "fetch"
                   /\ UNCHANGED raised
              ELSE /\ raised' = r.exc
                   /\ pc' = "except"
                   /\ UNCHANGED <<existing_products, page>>
    /\ UNCHANGED <<feed, batch_size, new_product_skus, update_skus, calls,
                   syncVars, mode, cacheFile, remotePages, totalPagesHeader,
                   fetched, saved, run_button, dialogs, runs, selected_file,
                   analyzed, workers>>

\* FetchPage with a get_products that logs the error and returns an empty
\* page instead of raising
FetchPage_swallow ==
    /\ pc = "fetch"
    /\ calls' = Append(calls, [op |-> "get_products", arg |-> <<page>>])
    /\ \E ok \in BOOLEAN :
          /\ fetched' = Append(fetched, [page |-> page, ok |-> ok])
          /\ IF ~ok
             THEN /\ pc' = "save"
                  /\ UNCHANGED <<raised, existing_products, page>>
             ELSE LET products == PageProducts(page)
                  IN  /\ UNCHANGED raised
                      /\ IF products = << >>
                         THEN pc' = "save" /\ UNCHANGED <<existing_products, page>>
                         ELSE /\ existing_products' =
                                     WithProducts(existing_products, products)
                              /\ IF totalPagesHeader /\ page >= Len(remotePages)
                                 THEN pc' = "save" /\ UNCHANGED page
                                 ELSE pc' = "fetch" /\ page' = page + 1
    /\ UNCHANGED <<feed, batch_size, new_product_skus, update_skus, syncVars,
                   mode, cacheFile, cacheResult, remotePages, totalPagesHeader,
                   saved, run_button, dialogs, runs, selected_file, analyzed, workers>>

\* FetchPage going on until the page is past the total page count
FetchPage_past_total ==
    /\ pc = "fetch"
    /\ calls' = Append(calls, [op |-> "get_products", arg |-> <<page>>])
    /\ \E ok \in BOOLEAN :
          /\ fetched' = Append(fetched, [page |-> page, ok |-> ok])
          /\ IF ~ok
             THEN /\ raised' = "GatewayError"
                  /\ pc' = "except"
                  /\ UNCHANGED <<existing_products, page>>
             ELSE LET products == PageProducts(page)
                  IN  /\ UNCHANGED raised
                      /\ IF products = << >>
                         THEN pc' = "save" /\ UNCHANGED <<existing_products, page>>
                         ELSE /\ existing_products' =
                                     WithProducts(existing_products, products)
                              /\ IF totalPagesHeader /\ page > Len(remotePages)
                                 THEN pc' = "save" /\ UNCHANGED page
                                 ELSE pc' = "fetch" /\ page' = page + 1
    /\ UNCHANGED <<feed, batch_size, new_product_skus, update_skus, syncVars,
                   mode, cacheFile, cacheResult, remotePages, totalPagesHeader,
                   saved, run_button, dialogs, runs, selected_file, analyzed, workers>>

\* One turn of the while loop, gui.py:190-203; get_products re-raises what
\* the request raised (woocommerce_handler.py:22-29)
FetchPage ==
    /\ pc = "fetch"
    /\ calls' = Append(calls, [op |-> "get_products", arg |-> <<page>>])
    /\ \E ok \in BOOLEAN :
          /\ fetched' = Append(fetched, [page |-> page, ok |-> ok])
          /\ IF ~ok
             THEN /\ raised' = "GatewayError"
                  /\ pc' = "except"
                  /\ UNCHANGED <<existing_products, page>>
             ELSE LET products == PageProducts(page)
                  IN  /\ UNCHANGED raised
                      /\ IF products = << >>
                         THEN pc' = "save" /\ UNCHANGED <<existing_products, page>>
                         ELSE /\ existing_products' =
                                     WithProducts(existing_products, products)
                              /\ IF totalPagesHeader /\ page >= Len(remotePages)
                                 THEN pc' = "save" /\ UNCHANGED page
                                 ELSE pc' = "fetch" /\ page' = page + 1
    /\ UNCHANGED <<feed, batch_size, new_product_skus, update_skus, syncVars,
                   mode, cacheFile, cacheResult, remotePages, totalPagesHeader,
                   saved, run_button, dialogs, runs, selected_file, analyzed, workers>>

\* process, gui.py:204-205 with cache_handler.save_cache: the file is written,
\* or open() fails and the file stays, or the write breaks off and leaves text
\* that is no JSON; save_cache logs the failure and returns
SaveCache ==
    /\ pc = "save"
    /\ saved' = Append(saved, existing_products)
    /\ \E outcome \in {"written", "open_failed", "write_failed"} :
          cacheFile' = CASE outcome = "written" ->
                                CacheFile("snapshot", 0, existing_products)
                         [] outcome = "open_failed" -> cacheFile
                         [] outcome = "write_failed" ->
                                CacheFile("not_json", 0, NoSnapshot)
    /\ pc' = "analyze_gui"
    /\ UNCHANGED <<feed, existing_products, batch_size, new_product_skus,
                   update_skus, raised, calls, syncVars, mode, cacheResult,
                   remotePages, totalPagesHeader, page, fetched, run_button,
                   dialogs, runs, selected_file, analyzed, workers>>

\* process, gui.py:207-209
AnalyzeGui ==
    /\ pc = "analyze_gui"
    /\ new_product_skus' = analyze_products(feed, existing_products)[1]
    /\ update_skus' = analyze_products(feed, existing_products)[2]
    /\ analyzed' = TRUE
    /\ pc' = "dispatch"
    /\ UNCHANGED <<feed, existing_products, batch_size, raised, calls, syncVars,
                   mode, cacheFile, cacheResult, remotePages, totalPagesHeader,
                   page, fetched, saved, run_button, dialogs, runs,
                   selected_file, workers>>

\* Dispatch with the dry-run test of gui.py:211 lost: a dry run submits the
\* new products
Dispatch_no_dry_run ==
    /\ pc = "dispatch"
    /\ calls' = IF new_product_skus # << >>
                THEN Append(calls, [op |-> "create_products_batch", arg |-> <<1>>])
                ELSE calls
    /\ dialogs' = Append(dialogs, "Import Completed")
    /\ pc' = "finally"
    /\ UNCHANGED <<feed, existing_products, batch_size, new_product_skus,
                   update_skus, raised, syncVars, mode, cacheFile,
                   cacheResult, remotePages, totalPagesHeader, page, fetched,
                   saved, run_button, runs, selected_file, analyzed, workers>>

\* process, gui.py:211-219, 235-240: the branch on the mode, up to the
\* confirmation prompt
Dispatch ==
    /\ pc = "dispatch"
    /\ IF mode = "dry-run"
       THEN dialogs' = Append(dialogs, "Dry Run") /\ pc' = "finally"
       ELSE IF mode = "new-stock"
       THEN IF new_product_skus = << >>
            THEN dialogs' = Append(dialogs, "No New Products") /\ pc' = "finally"
            ELSE dialogs' = Append(dialogs, "Confirm Import") /\ pc' = "confirm"
       ELSE IF update_skus = << >>
            THEN dialogs' = Append(dialogs, "No Updates") /\ pc' = "finally"
            ELSE dialogs' = Append(dialogs, "Confirm Update") /\ pc' = "confirm"
    /\ UNCHANGED <<feed, existing_products, batch_size, new_product_skus,
                   update_skus, raised, calls, syncVars, mode, cacheFile,
                   cacheResult, remotePages, totalPagesHeader, page, fetched,
                   saved, run_button, runs, selected_file, analyzed, workers>>

\* process, gui.py:219-234, 240-254: the answer to askyesno, and the call of
\* the synchronizer with progress_callback=self.update_progress
Confirm ==
    /\ pc = "confirm"
    /\ \E proceed \in BOOLEAN :
        /\ dialogs' = Append(dialogs, IF proceed THEN "yes" ELSE "no")
        /\ IF ~proceed
          THEN pc' = "finally" /\ UNCHANGED <<raised, fn, bookIdx>>
          ELSE IF CallBinds(IF mode = "new-stock" THEN new_stock_import_params
                            ELSE update_stock_and_price_params, GuiKeywords)
          THEN /\ fn' = IF mode = "new-stock" THEN "new" ELSE "update"
               /\ bookIdx' = 1
               /\ pc' = "build"
               /\ UNCHANGED raised
          ELSE /\ raised' = "TypeError"
               /\ pc' = "except"
               /\ UNCHANGED <<fn, bookIdx>>
    /\ UNCHANGED <<feed, existing_products, batch_size, new_product_skus,
                   update_skus, calls, current_batch, batches, idx, submitted,
                   new_products_added, updates, reported, mode, cacheFile,
                   cacheResult, remotePages, totalPagesHeader, page, fetched,
                   saved, run_button, runs, selected_file, analyzed, workers>>

\* process, gui.py:256-258
Except ==
    /\ pc = "except"
    /\ dialogs' = Append(dialogs, "Error")
    /\ pc' = "finally"
    /\ UNCHANGED <<feed, existing_products, batch_size, new_product_skus,
                   update_skus, raised, calls, syncVars, mode, cacheFile,
                   cacheResult, remotePages, totalPagesHeader, page, fetched,
                   saved, run_button, runs, selected_file, analyzed, workers>>

\* process, gui.py:259-261: the worker ends
Finally ==
    /\ pc = "finally"
    /\ run_button' = "normal"
    /\ workers' = workers - 1
    /\ pc' = "idle"
    /\ UNCHANGED <<feed, existing_products, batch_size, new_product_skus,
                   update_skus, raised, calls, syncVars, mode, cacheFile,
                   cacheResult, remotePages, totalPagesHeader, page, fetched,
                   saved, dialogs, runs, selected_file, analyzed>>

Next ==
    \/ BrowseFile \/ RunProcess
    \/ LoadXml \/ LoadCache \/ FetchPage \/ SaveCache \/ AnalyzeGui
    \/ Dispatch \/ Confirm \/ Except \/ Finally

Spec == Init /\ [][Next]_vars

\* The worker thread, once in the loop of gui.py:190-203, goes on running it
FetchSpec == Spec /\ WF_vars(FetchPage)

\* ------------------------------------------------------------ the claims
RECURSIVE Flatten(_)
Flatten(bs) == IF bs = << >> THEN << >> ELSE Head(bs) \o Flatten(Tail(bs))

RECURSIVE SucceededSize(_)
SucceededSize(log) ==
    IF log = << >> THEN 0
    ELSE (IF Head(log).ok THEN Len(Head(log).batch) ELSE 0) + SucceededSize(Tail(log))

FeedKey(i) == safe_decode(feed[i].isbn)

\* The skus the running synchronizer was given
ClassifiedSkus == IF fn = "new" THEN new_product_skus ELSE update_skus

\* The positions in the feed of the records the running synchronizer selects
ClassifiedPositions == { i \in 1..Len(feed) : InList(FeedKey(i), ClassifiedSkus) }

\* What identifies the record behind an item of a batch: the sku of a product,
\* the remote id of an update payload
ItemKey(item) == IF fn = "new" THEN item.sku ELSE item.id
ExpectedKey(sku) == IF fn = "new" THEN sku ELSE existing_products[sku].id

Ceil(n, b) == (n + b - 1) \div b

StockUnparsable(book) ==
    book.stock # NoElement /\ ~IntParses(safe_decode(book.stock))

Analyzed == pc # "analyze"
Batched == pc \in {"submit", "done"}

\* C1: after analyze_products every feed key is in exactly one of the two
\* results: in the new products iff the snapshot lacks it, in the updates iff
\* the snapshot has it; the results share no key and hold feed keys only.
C1_Partition ==
    Analyzed =>
        /\ \A i \in 1..Len(feed) :
              /\ InList(FeedKey(i), new_product_skus)
                    <=> FeedKey(i) \notin DOMAIN existing_products
              /\ InList(FeedKey(i), update_skus)
                    <=> FeedKey(i) \in DOMAIN existing_products
              /\ InList(FeedKey(i), new_product_skus)
                    # InList(FeedKey(i), update_skus)
        /\ \A i \in 1..Len(new_product_skus) :
              ~InList(new_product_skus[i], update_skus)
        /\ \A k \in {new_product_skus[i] : i \in 1..Len(new_product_skus)}
                      \cup {update_skus[i] : i \in 1..Len(update_skus)} :
              \E i \in 1..Len(feed) : FeedKey(i) = k

C1_Witness ==
    Analyzed /\ new_product_skus # << >> /\ update_skus # << >>

\* C2: once the batches are built there are ceil(N/B) of them for the N
\* classified records, none is empty, all but the last hold B items, and
\* their concatenation is the classified records in feed order.
C2_Claim ==
    Batched =>
        LET N == Len(ClassifiedSkus)
            flat == Flatten(batches)
        IN  /\ Len(batches) = Ceil(N, batch_size)
            /\ \A b \in 1..Len(batches) :
                  /\ batches[b] # << >>
                  /\ b < Len(batches) => Len(batches[b]) = batch_size
            /\ Len(flat) = N
            /\ \A i \in 1..N : ItemKey(flat[i]) = ExpectedKey(ClassifiedSkus[i])

\* C3: every batch built is handed to the gateway once, in the order built,
\* whether or not other batches failed; the loop ends with all of them handed
\* over, and an outcome once logged is never changed.
C3_InOrderOnce ==
    /\ Len(submitted) <= Len(batches)
    /\ \A i \in 1..Len(submitted) : submitted[i].batch = batches[i]
    /\ pc = "submit" => Len(submitted) = idx - 1
    /\ pc = "done" => Len(submitted) = Len(batches)
    /\ LET batchCalls ==
               SelectSeq(calls, LAMBDA c : c.op \in {"create_products_batch",
                                                    "update_products_batch"})
       IN  /\ Len(batchCalls) = Len(submitted)
           /\ \A i \in 1..Len(batchCalls) : batchCalls[i].arg = <<i>>

C3_Isolation ==
    [](C3_InOrderOnce)
        /\ [][\A i \in 1..Len(submitted) : /\ Len(submitted') >= i
                                           /\ submitted'[i] = submitted[i]]_vars

C3_Witness ==
    /\ pc = "done" /\ Len(submitted) >= 2
    /\ ~submitted[1].ok /\ submitted[2].ok

\* A record whose stock, when there is one, parses
StockAbsentOrInteger(book) == ~StockUnparsable(book) \/ book.stock = None

DimensionComponents(product) ==
    IF "dimensions" \in DOMAIN product THEN Cardinality(DOMAIN product.dimensions)
    ELSE 0

\* C4: for new records whose optional fields are well-formed, empty or
\* missing, new_stock_import's transformation does not raise, and every product
\* has an integer stock >= 0, a non-empty price and zero or three dimensions.
C4_Claim ==
    (fn = "new"
        /\ \A i \in ClassifiedPositions : StockAbsentOrInteger(feed[i]))
    => /\ raised = "none"
       /\ \A p \in {Flatten(batches)[i] : i \in 1..Len(Flatten(batches))}
                     \cup {current_batch[i] : i \in 1..Len(current_batch)} :
             /\ p.stock_quantity \in Nat
             /\ p.regular_price # << >>
             /\ DimensionComponents(p) \in {0, 3}

\* C5: a classified record whose stock text does not parse does not make the
\* synchronizer raise, and once the batches are built it is in one of them
\* with stock quantity 0.
C5_Claim ==
    /\ pc = "raised" => ~StockUnparsable(feed[bookIdx])
    /\ Batched =>
          LET flat == Flatten(batches)
              Rank(i) == Cardinality({j \in ClassifiedPositions : j <= i})
          IN  \A i \in ClassifiedPositions :
                 StockUnparsable(feed[i]) =>
                    /\ Rank(i) <= Len(flat)
                    /\ ItemKey(flat[Rank(i)]) = ExpectedKey(FeedKey(i))
                    /\ flat[Rank(i)].stock_quantity = 0

\* C9: the total a synchronizer reports when it ends is the sum of the sizes
\* of the batches whose submission succeeded.
C9_Claim ==
    pc = "done" => reported = SucceededSize(submitted)

\* C6: load_cache returns the saved snapshot iff the file holds one younger
\* than 31 days; with no file or an older one it returns None, and the run
\* then fetches the listing from page 1 on.  (Until save_cache runs, the file
\* is the one load_cache read.)
C6_LoadCache ==
    /\ (cacheResult # "none" /\ saved = << >>) =>
          /\ cacheResult = "hit" <=>
                (cacheFile.kind = "snapshot" /\ cacheFile.age < CACHE_EXPIRATION_DAYS)
          /\ cacheResult = "hit" => existing_products = cacheFile.products
          /\ (cacheFile.kind = "none"
                \/ (cacheFile.kind = "snapshot"
                       /\ cacheFile.age >= CACHE_EXPIRATION_DAYS))
                => cacheResult = "miss"
    /\ cacheResult = "hit" => fetched = << >>
    /\ cacheResult = "miss" =>
          IF fetched = << >> THEN pc = "fetch" /\ page = 1
          ELSE fetched[1].page = 1

C6_Witness ==
    /\ cacheResult = "miss" /\ saved = << >>
    /\ cacheFile.kind = "snapshot" /\ cacheFile.age = 40
    /\ fetched # << >>

\* C7: whatever is wrong with the cache file, load_cache returns None and
\* does not raise.  (Until save_cache runs, the file is the one it read.)
C7_Claim ==
    (cacheResult # "none" /\ saved = << >> /\ cacheFile.kind \in CorruptKinds)
        => cacheResult = "miss"

\* C8: in a run in which a page fetch failed, save_cache is not called, no
\* classification is made, no create, update or category call is made, and
\* the worker is on its way out.
C8_FetchFailureAborts ==
    (\E i \in 1..Len(fetched) : ~fetched[i].ok) =>
        /\ saved = << >>
        /\ ~analyzed
        /\ new_product_skus = << >> /\ update_skus = << >>
        /\ \A i \in 1..Len(calls) : ~IsWrite(calls[i])
        /\ pc \in {"except", "finally", "idle"}

C8_Witness ==
    /\ Len(fetched) = 2 /\ fetched[1].ok /\ ~fetched[2].ok
    /\ existing_products # NoSnapshot
    /\ pc = "idle"

\* C10: from the start of a dry run to its end no batch-create, batch-update
\* or category-create call is made, and no synchronizer is entered.
C10_DryRunNoWrites ==
    (mode = "dry-run" /\ runs > 0) =>
        /\ \A i \in 1..Len(calls) : ~IsWrite(calls[i])
        /\ pc \notin {"confirm", "build"}
        /\ fn = "none"

C10_Witness ==
    /\ mode = "dry-run" /\ pc = "finally" /\ analyzed
    /\ new_product_skus # << >> /\ update_skus # << >>

\* The set the mode of the run submits
ModeSkus == IF mode = "new-stock" THEN new_product_skus ELSE update_skus

RunOver == runs > 0 /\ pc \in {"finally", "idle"}

\* C11: in a create-new or update-existing run that the user confirmed, the
\* synchronizer is entered, and when the run is over every record of the set
\* has been in a batch handed to the gateway.
C11_Claim ==
    (RunOver /\ InList("yes", dialogs)) =>
        /\ fn = (IF mode = "new-stock" THEN "new" ELSE "update")
        /\ raised = "none"
        /\ \A i \in 1..Len(ModeSkus) :
              \E j \in 1..Len(submitted) :
                 \E n \in 1..Len(submitted[j].batch) :
                    ItemKey(submitted[j].batch[n]) = ExpectedKey(ModeSkus[i])

\* C12: there is at most one worker; the Run button is disabled exactly while
\* there is one, so that it is enabled again whenever a worker has ended,
\* however it ended.
C12_SingleWorker ==
    /\ workers \in {0, 1}
    /\ workers = 1 <=> run_button = "disabled"
    /\ workers = 0 <=> pc = "idle"

C12_Witness ==
    /\ runs = 2 /\ pc = "idle" /\ workers = 0 /\ run_button = "normal"
    /\ raised # "none"

\* The categories the handler's answers in the log resolve, in call order
RECURSIVE LoggedCategories(_)
LoggedCategories(log) ==
    IF log = << >> THEN << >>
    ELSE LET c == Head(log)
             ok == \/ c.op = "get_categories" /\ c.result = "found"
                   \/ c.op = "create_category" /\ c.result = "id"
         IN  (IF ok THEN <<[id |-> CategoryId(c.arg)]>> ELSE << >>)
                 \o LoggedCategories(Tail(log))

CategoryFailed(c) ==
    \/ c.op = "get_categories" /\ c.result = "error"
    \/ c.op = "create_category" /\ c.result \in {"no_id", "error"}

RECURSIVE AllCategories(_)
AllCategories(products) ==
    IF products = << >> THEN << >>
    ELSE Head(products).categories \o AllCategories(Tail(products))

\* The products new_stock_import has built so far
BuiltProducts ==
    Flatten(batches) \o (IF pc = "build" THEN current_batch ELSE << >>)

\* The positions of the classified books the loop has been through
BooksDone ==
    { i \in 1..Len(feed) : i < bookIdx /\ InList(FeedKey(i), new_product_skus) }

\* C13: while new_stock_import runs without a record raising, every classified
\* book it has been through has its product among the built ones, in feed
\* order, whatever the category calls answered, and the products' categories
\* are exactly the ones whose resolution the handler answered with an id: a
\* failed resolution leaves out that category and nothing else.
C13_CategoryFailureOmitted ==
    (fn = "new" /\ raised = "none") =>
        /\ Len(BuiltProducts) = Cardinality(BooksDone)
        /\ \A n \in 1..Len(BuiltProducts) :
              \E i \in BooksDone :
                 /\ BuiltProducts[n].sku = FeedKey(i)
                 /\ Cardinality({j \in BooksDone : j <= i}) = n
        /\ AllCategories(BuiltProducts)
              = LoggedCategories(SelectSeq(calls, LAMBDA c :
                    c.op \in {"get_categories", "create_category"}))
        /\ pc = "done" =>
              \A n \in 1..Len(BuiltProducts) :
                 \E j \in 1..Len(submitted) :
                    \E m \in 1..Len(submitted[j].batch) :
                       submitted[j].batch[m] = BuiltProducts[n]

\* A record with two categories, one of which failed to resolve, was submitted
\* with the other one
C13_Witness ==
    /\ fn = "new" /\ raised = "none" /\ pc = "done"
    /\ \E c \in {calls[k] : k \in 1..Len(calls)} :
          c.op \in {"get_categories", "create_category"} /\ CategoryFailed(c)
    /\ \E j \in 1..Len(submitted) :
          \E m \in 1..Len(submitted[j].batch) :
             Len(submitted[j].batch[m].categories) = 1

\* The test that ends the loop after page p, gui.py:192-193, 198-201
StopsAfter(p) ==
    PageProducts(p) = << >> \/ (totalPagesHeader /\ p >= Len(remotePages))

FetchFailed == \E i \in 1..Len(fetched) : ~fetched[i].ok

FetchedKeys ==
    UNION { { PageProducts(fetched[i].page)[n].sku :
                  n \in 1..Len(PageProducts(fetched[i].page)) } :
            i \in 1..Len(fetched) }

C14_Construction ==
    (cacheResult = "miss" /\ ~FetchFailed) =>
        /\ \A i \in 1..Len(fetched) : fetched[i].page = i
        /\ SelectSeq(calls, LAMBDA c : c.op = "get_products")
              = [i \in 1..Len(fetched) |-> [op |-> "get_products", arg |-> <<i>>]]
        /\ \A i \in 1..Len(fetched) : i < Len(fetched) => ~StopsAfter(i)
        /\ Len(fetched) <= Len(remotePages) + 1
        /\ IF pc = "fetch"
           THEN /\ page = Len(fetched) + 1
                /\ fetched # << >> => ~StopsAfter(Len(fetched))
                /\ saved = << >>
           ELSE /\ fetched # << >> /\ StopsAfter(Len(fetched))
                /\ DOMAIN existing_products = FetchedKeys
                /\ \A k \in FetchedKeys : existing_products[k] = RemoteProduct(k)
                /\ pc = "save" => saved = << >>
                /\ pc # "save" => saved = <<existing_products>>

\* C14: without a valid cached snapshot, and while the remote answers, the
\* pages 1, 2, 3, ... are requested in order, each once; the loop stops after
\* the first page that is empty or at or above the total page count, which it
\* always reaches; the snapshot then holds the keys of the fetched pages'
\* records and is handed to save_cache once.
C14_SnapshotConstruction ==
    [](C14_Construction) /\ (pc = "fetch" ~> pc # "fetch")

\* Two pages with products were fetched, then the empty third one, and the
\* snapshot was handed to save_cache
C14_Witness ==
    /\ cacheResult = "miss" /\ ~FetchFailed /\ ~totalPagesHeader
    /\ Len(fetched) = 3 /\ PageProducts(2) # << >>
    /\ saved = <<existing_products>> /\ pc = "analyze_gui"

\* C15: when a run follows another one in a session, every key that was in a
\* successfully submitted create batch of the earlier run is classified as
\* existing, and not as new, by the later run.
C15_Claim ==
    [][(pc \in {"done", "raised"} /\ pc' = "call") =>
          \A k \in CreatedKeys :
             InList(k, update_skus') /\ ~InList(k, new_product_skus')]_vars

====
